---- MODULE Spec2Model ----
(***************************************************************************)
(* A model of libs/Loss.py: the segmentation losses and the variational    *)
(* threshold loss.  Tensors are finite maps from index tuples to exact     *)
(* rationals; every loss is computed step by step as the Python code does. *)
(***************************************************************************)
EXTENDS Integers, Sequences, FiniteSets, TLC

VARIABLES
    self,    \* the loss object: its class and the hyperparameters set by __init__
    args,    \* the tensors (and, for plain functions, the keywords) of the call
    pc,      \* "ready" before the call, "done" after a return, "raised" after an exception
    locals,  \* the local variables the call leaves behind (y_onehot, tp, fp, fn, ...)
    ret,     \* the returned value
    exc      \* the exception raised, "" when none

vars == <<self, args, pc, locals, ret, exc>>

(***************************************************************************)
(* Bounds of the model.                                                    *)
(***************************************************************************)
\* a prediction tensor has at most MaxNumel elements
MaxNumel == 8

(***************************************************************************)
(* Exact rational arithmetic: the value n/d, d > 0, in lowest terms.       *)
(* d = 0 stands for the non-finite floats: 0/0 is nan, 1/0 inf, -1/0 -inf. *)
(***************************************************************************)
Abs(x) == IF x < 0 THEN -x ELSE x

Sgn(x) == IF x < 0 THEN -1 ELSE IF x > 0 THEN 1 ELSE 0

RECURSIVE GCD(_, _)
GCD(a, b) == IF b = 0 THEN a ELSE GCD(b, a % b)

Rat(n, d) ==
    IF d = 1 THEN [n |-> n, d |-> 1]
    ELSE IF d = 0 THEN [n |-> Sgn(n), d |-> 0]
    ELSE LET g == GCD(Abs(n), Abs(d))
             s == Sgn(d)
         IN  [n |-> s * (n \div g), d |-> s * (d \div g)]

Zero == [n |-> 0, d |-> 1]

One == [n |-> 1, d |-> 1]

NaN == [n |-> 0, d |-> 0]

IsFinite(a) == a.d # 0

RAdd(a, b) ==
    IF a.d = b.d /\ a.d = 1 THEN [n |-> a.n + b.n, d |-> 1]
    ELSE IF a.d = 0 \/ b.d = 0
    THEN (IF a.d # 0 THEN b ELSE IF b.d # 0 \/ a.n = b.n THEN a ELSE NaN)
    ELSE LET g == GCD(a.d, b.d)
         IN  Rat(a.n * (b.d \div g) + b.n * (a.d \div g), a.d * (b.d \div g))

RNeg(a) == [n |-> -a.n, d |-> a.d]

RSub(a, b) == RAdd(a, RNeg(b))

RMul(a, b) ==
    IF a.d = b.d /\ a.d = 1 THEN [n |-> a.n * b.n, d |-> 1]
    ELSE LET x == Rat(a.n, b.d)
             y == Rat(b.n, a.d)
         IN  Rat(x.n * y.n, x.d * y.d)

RDiv(a, b) ==
    IF b.d = 0 THEN (IF a.d = 0 THEN NaN ELSE Zero)
    ELSE IF b.n < 0 THEN Rat(-(a.n * b.d), a.d * (-b.n))
    ELSE Rat(a.n * b.d, a.d * b.n)

RLess(a, b) ==
    IF a.n <= 0 /\ b.n > 0 THEN ~(a.n = 0 /\ a.d = 0)
    ELSE IF a.n >= 0 /\ b.n <= 0 THEN FALSE
    ELSE a.n * b.d < b.n * a.d

RMax(a, b) == IF RLess(a, b) THEN b ELSE a

\* .long(): truncation toward zero
RTrunc(a) == Sgn(a.n) * (Abs(a.n) \div a.d)

RECURSIVE RSumSeq(_)
RSumSeq(s) == IF s = <<>> THEN Zero ELSE RAdd(Head(s), RSumSeq(Tail(s)))

(***************************************************************************)
(* Tensors: [shape |-> <<d0, d1, ...>>, data |-> the elements in row-major *)
(* (contiguous) order].  Axes are 0-based, as in Python: an element of     *)
(* axis ax at index k sits at o * n * inner + k * inner + i, where n is    *)
(* the size of the axis, inner the number of elements of one index of the  *)
(* axis, and o, i count the indices before and after the axis.             *)
(***************************************************************************)
RECURSIVE Numel(_)
Numel(shape) == IF shape = <<>> THEN 1 ELSE Head(shape) * Numel(Tail(shape))

Inner(shape, ax) == Numel(SubSeq(shape, ax + 2, Len(shape)))

\* the sequence s without / with an entry at axis ax (0-based)
RemoveAt(s, ax) == SubSeq(s, 1, ax) \o SubSeq(s, ax + 2, Len(s))

InsertAt(s, ax, v) == SubSeq(s, 1, ax) \o <<v>> \o SubSeq(s, ax + 1, Len(s))

SetAt(s, ax, v) == [s EXCEPT ![ax + 1] = v]

\* the index tuple of the element at row-major position p (0-based), and back
RECURSIVE Coord(_, _)
Coord(p, shape) ==
    IF shape = <<>> THEN <<>>
    ELSE <<p \div Numel(Tail(shape))>> \o Coord(p % Numel(Tail(shape)), Tail(shape))

RECURSIVE Flat(_, _)
Flat(i, shape) ==
    IF i = <<>> THEN 0
    ELSE Head(i) * Numel(Tail(shape)) + Flat(Tail(i), Tail(shape))

\* s as an explicit tuple (s \o <<>> = s): the elements are computed once
Tuple(s) == s \o <<>>

Tensor(shape, data) == [shape |-> shape, data |-> Tuple(data)]

TMul(a, b) == Tensor(a.shape, [k \in 1..Len(a.data) |-> RMul(a.data[k], b.data[k])])

TAdd(a, b) == Tensor(a.shape, [k \in 1..Len(a.data) |-> RAdd(a.data[k], b.data[k])])

TSub(a, b) == Tensor(a.shape, [k \in 1..Len(a.data) |-> RSub(a.data[k], b.data[k])])

TDiv(a, b) == Tensor(a.shape, [k \in 1..Len(a.data) |-> RDiv(a.data[k], b.data[k])])

\* tensor (op) Python scalar
TAddS(a, s) == Tensor(a.shape, [k \in 1..Len(a.data) |-> RAdd(a.data[k], s)])

TMulS(a, s) == Tensor(a.shape, [k \in 1..Len(a.data) |-> RMul(a.data[k], s)])

TRSubS(s, a) == Tensor(a.shape, [k \in 1..Len(a.data) |-> RSub(s, a.data[k])])

TSquare(a) == Tensor(a.shape, [k \in 1..Len(a.data) |-> RMul(a.data[k], a.data[k])])

TLong(a) == Tensor(a.shape, [k \in 1..Len(a.data) |-> Rat(RTrunc(a.data[k]), 1)])

\* the data of t reduced over axis ax by summation
SumOverAxis(t, ax) ==
    LET n == t.shape[ax + 1]
        inner == Inner(t.shape, ax)
    IN  [p \in 1..(Len(t.data) \div n) |->
            LET o == (p - 1) \div inner
                i == (p - 1) % inner
            IN  RSumSeq([k \in 1..n |-> t.data[o * n * inner + (k - 1) * inner + i + 1]])]

\* t.sum(ax) and t.sum(ax, keepdim=True)
TSum(t, ax) == Tensor(RemoveAt(t.shape, ax), SumOverAxis(t, ax))

TSumKeep(t, ax) == Tensor(SetAt(t.shape, ax, 1), SumOverAxis(t, ax))

\* t[:, k] for dim = 1, in general the slice of t at index k of axis dim
TSelect(t, dim, k) ==
    LET n == t.shape[dim + 1]
        inner == Inner(t.shape, dim)
    IN  Tensor(RemoveAt(t.shape, dim),
               [p \in 1..(Len(t.data) \div n) |->
                   t.data[((p - 1) \div inner) * n * inner + k * inner
                          + ((p - 1) % inner) + 1]])

\* torch.unbind(t, dim) and torch.stack(seq, dim)
TUnbind(t, dim) == Tuple([k \in 1..t.shape[dim + 1] |-> TSelect(t, dim, k - 1)])

TStack(ts, dim) ==
    LET n == Len(ts)
        shp == InsertAt(ts[1].shape, dim, n)
        inner == Inner(shp, dim)
    IN  Tensor(shp, [p \in 1..Numel(shp) |->
            ts[(((p - 1) \div inner) % n) + 1].data[
                ((p - 1) \div (n * inner)) * inner + ((p - 1) % inner) + 1]])

\* t[1:] along axis dim
TSliceFrom1(t, dim) ==
    LET n == t.shape[dim + 1]
        shp == SetAt(t.shape, dim, n - 1)
        inner == Inner(shp, dim)
    IN  Tensor(shp, [p \in 1..Numel(shp) |->
            t.data[((p - 1) \div ((n - 1) * inner)) * n * inner
                   + ((((p - 1) \div inner) % (n - 1)) + 1) * inner
                   + ((p - 1) % inner) + 1]])

\* gt.view(shape): the same elements, in the same order, under another shape
TView(t, shape) == Tensor(shape, t.data)

\* t.mean(): the sum of all elements over their number (nan for no element)
TMean(t) == RDiv(RSumSeq(t.data), Rat(Len(t.data), 1))

RECURSIVE RMaxSeq(_)
RMaxSeq(s) == IF Len(s) = 1 THEN s[1] ELSE RMax(Head(s), RMaxSeq(Tail(s)))

\* t.max(ax, keepdim=True)[0]
TMaxKeep(t, ax) ==
    LET n == t.shape[ax + 1]
        inner == Inner(t.shape, ax)
    IN  Tensor(SetAt(t.shape, ax, 1),
               [p \in 1..(Len(t.data) \div n) |->
                   RMaxSeq([k \in 1..n |->
                       t.data[((p - 1) \div inner) * n * inner + (k - 1) * inner
                              + ((p - 1) % inner) + 1]])])

\* t.repeat(*rpt): t tiled rpt[k] times along every axis k
TRepeat(t, rpt) ==
    LET shp == [k \in 1..Len(t.shape) |-> t.shape[k] * rpt[k]]
    IN  Tensor(shp, [p \in 1..Numel(shp) |->
            LET c == Coord(p - 1, shp)
            IN  t.data[Flat([k \in 1..Len(c) |-> c[k] % t.shape[k]], t.shape) + 1]])

\* range(a, b) as a list
Range(a, b) == [k \in 1..(IF b > a THEN b - a ELSE 0) |-> a + k - 1]

SeqMax(S) == CHOOSE m \in S : \A k \in S : k <= m

SeqMin(S) == CHOOSE m \in S : \A k \in S : m <= k

\* all([i == j for i, j in zip(s1, s2)]): zip stops at the shorter sequence
ZipAllEqual(s1, s2) ==
    \A k \in 1..(IF Len(s1) < Len(s2) THEN Len(s1) ELSE Len(s2)) : s1[k] = s2[k]

\* y.scatter_(1, index, 1) on y = torch.zeros(shp)
ScatterOnes(shp, index) ==
    Tensor(shp, [p \in 1..Numel(shp) |->
        IF \E q \in 1..Len(index.data) :
              SetAt(Coord(q - 1, index.shape), 1, RTrunc(index.data[q])) = Coord(p - 1, shp)
        THEN One ELSE Zero])

(***************************************************************************)
(* softmax_helper.  A tensor of logits is stored as the tensor of their    *)
(* exponentials e^x (positive rationals), so that max, the shift by the    *)
(* maximum and the normalisation are all exact:                            *)
(*   exp(x - x_max) = e^x / e^(x_max).                                     *)
(***************************************************************************)
\* e_x / e_x.sum(1, keepdim=True).repeat(*rpt)
softmax_helper_normalise(e_x, rpt) == TDiv(e_x, TRepeat(TSumKeep(e_x, 1), rpt))

\* e_x = torch.exp(x - x_max), x_max the maximum along the class axis
softmax_helper_e_x(x, rpt) ==
    softmax_helper_normalise(TDiv(x, TRepeat(TMaxKeep(x, 1), rpt)), rpt)

softmax_helper(x) ==
    softmax_helper_e_x(x, [k \in 1..Len(x.shape) |-> IF k = 2 THEN x.shape[2] ELSE 1])

\* self.apply_nonlin(x) when it is not None
ApplyNonlin(f, x) == IF f = "softmax_helper" THEN softmax_helper(x) ELSE x

(***************************************************************************)
(* sum_tensor                                                              *)
(***************************************************************************)
RECURSIVE SumDescending(_, _)
SumDescending(inp, axes) ==
    IF axes = {} THEN inp
    ELSE LET ax == SeqMax(axes) IN SumDescending(TSum(inp, ax), axes \ {ax})

RECURSIVE SumAscendingKeep(_, _)
SumAscendingKeep(inp, axes) ==
    IF axes = {} THEN inp
    ELSE LET ax == SeqMin(axes) IN SumAscendingKeep(TSumKeep(inp, ax), axes \ {ax})

sum_tensor(inp, axes, keepdim) ==
    LET uniq == {axes[k] : k \in 1..Len(axes)}
    IN  IF keepdim THEN SumAscendingKeep(inp, uniq) ELSE SumDescending(inp, uniq)

(***************************************************************************)
(* The label reconciliation of get_tp_fp_fn, and its copies in GDiceLoss,  *)
(* GDiceLossV2 and SSLoss.                                                 *)
(***************************************************************************)
\* mutant: the ones are scattered along the batch axis
get_tp_fp_fn_onehot_dim0(net_output, gt) ==
    LET shp_x == net_output.shape
        shp_y == gt.shape
        gt1 == IF Len(shp_x) # Len(shp_y)
               THEN TView(gt, <<shp_y[1], 1>> \o Tail(shp_y))
               ELSE gt
        index == TLong(gt1)
    IN  IF ZipAllEqual(net_output.shape, gt1.shape)
        THEN gt1
        ELSE Tensor(shp_x, [p \in 1..Numel(shp_x) |->
                 IF \E q \in 1..Len(index.data) :
                       SetAt(Coord(q - 1, index.shape), 0, RTrunc(index.data[q]))
                         = Coord(p - 1, shp_x)
                 THEN One ELSE Zero])

\* mutant: the ground truth is scattered even when it has the prediction's shape
get_tp_fp_fn_onehot_always_scatter(net_output, gt) ==
    LET shp_x == net_output.shape
        shp_y == gt.shape
        gt1 == IF Len(shp_x) # Len(shp_y)
               THEN TView(gt, <<shp_y[1], 1>> \o Tail(shp_y))
               ELSE gt
    IN  ScatterOnes(shp_x, TLong(gt1))

get_tp_fp_fn_onehot(net_output, gt) ==
    LET shp_x == net_output.shape
        shp_y == gt.shape
        gt1 == IF Len(shp_x) # Len(shp_y)
               THEN TView(gt, <<shp_y[1], 1>> \o Tail(shp_y))
               ELSE gt
    IN  IF ZipAllEqual(net_output.shape, gt1.shape)
        THEN gt1
        ELSE ScatterOnes(shp_x, TLong(gt1))

GDiceLoss_onehot(net_output, gt) ==
    LET shp_x == net_output.shape
        shp_y == gt.shape
        gt1 == IF Len(shp_x) # Len(shp_y)
               THEN TView(gt, <<shp_y[1], 1>> \o Tail(shp_y))
               ELSE gt
    IN  IF ZipAllEqual(net_output.shape, gt1.shape)
        THEN gt1
        ELSE ScatterOnes(shp_x, TLong(gt1))

GDiceLossV2_onehot(net_output, gt) ==
    LET shp_x == net_output.shape
        shp_y == gt.shape
        gt1 == IF Len(shp_x) # Len(shp_y)
               THEN TView(gt, <<shp_y[1], 1>> \o Tail(shp_y))
               ELSE gt
    IN  IF ZipAllEqual(net_output.shape, gt1.shape)
        THEN gt1
        ELSE ScatterOnes(shp_x, TLong(gt1))

SSLoss_onehot(net_output, gt) ==
    LET shp_x == net_output.shape
        shp_y == gt.shape
        gt1 == IF Len(shp_x) # Len(shp_y)
               THEN TView(gt, <<shp_y[1], 1>> \o Tail(shp_y))
               ELSE gt
    IN  IF ZipAllEqual(net_output.shape, gt1.shape)
        THEN gt1
        ELSE ScatterOnes(shp_x, TLong(gt1))

(***************************************************************************)
(* get_tp_fp_fn.  An optional argument (axes, mask) is None or Some(v).    *)
(***************************************************************************)
None == {}

Some(v) == {v}

Val(o) == CHOOSE v \in o : TRUE

\* torch.stack(tuple(x_i * mask[:, 0] for x_i in torch.unbind(t, dim=1)), dim=1)
MaskEachClass_parts(parts, m0) ==
    TStack(Tuple([k \in 1..Len(parts) |-> TMul(parts[k], m0)]), 1)

MaskEachClass(t, mask) == MaskEachClass_parts(TUnbind(t, 1), TSelect(mask, 1, 0))

\* mutant: the sums are squared, not the products
get_tp_fp_fn_sum_then_square(t, axes, square) ==
    IF square THEN TSquare(sum_tensor(t, axes, FALSE)) ELSE sum_tensor(t, axes, FALSE)

\* if square: t = t ** 2;  t = sum_tensor(t, axes, keepdim=False)
get_tp_fp_fn_square_sum(t, axes, square) ==
    sum_tensor(IF square THEN TSquare(t) ELSE t, axes, FALSE)

\* if mask is not None: t = stack(x_i * mask[:, 0] ...), then the square and the sum
get_tp_fp_fn_reduce(t, axes, mask, square) ==
    get_tp_fp_fn_square_sum(IF mask # None THEN MaskEachClass(t, Val(mask)) ELSE t,
                            axes, square)

\* tp = net_output * y_onehot, fp = net_output * (1 - y_onehot),
\* fn = (1 - net_output) * y_onehot, each masked, squared and summed
get_tp_fp_fn_products(net_output, y_onehot, axes, mask, square) ==
    [y_onehot |-> y_onehot,
     tp |-> get_tp_fp_fn_reduce(TMul(net_output, y_onehot), axes, mask, square),
     fp |-> get_tp_fp_fn_reduce(TMul(net_output, TRSubS(One, y_onehot)), axes, mask,
                                square),
     fn |-> get_tp_fp_fn_reduce(TMul(TRSubS(One, net_output), y_onehot), axes, mask,
                                square)]

get_tp_fp_fn(net_output, gt, axes, mask, square) ==
    get_tp_fp_fn_products(
        net_output, get_tp_fp_fn_onehot(net_output, gt),
        IF axes = None THEN Range(2, Len(net_output.shape)) ELSE Val(axes),
        mask, square)

(***************************************************************************)
(* The region-overlap losses.  A forward is written as the chain of its    *)
(* statements, each operator passing what it computed to the next; the     *)
(* last one gives the locals of the call and ret, the value returned.      *)
(***************************************************************************)
\* axes = [0] + list(range(2, len(shp_x))) if self.batch_dice else list(range(2, len(shp_x)))
LossAxes(batch_dice, shp_x) ==
    IF batch_dice THEN <<0>> \o Range(2, Len(shp_x)) ELSE Range(2, Len(shp_x))

\* if self.apply_nonlin is not None: x = self.apply_nonlin(x)
Nonlin(slf, x) == IF slf.apply_nonlin # "None" THEN ApplyNonlin(slf.apply_nonlin, x) ELSE x

\* tp, fp, fn = get_tp_fp_fn(x, y, axes, loss_mask, self.square)
Confusion(slf, x, y, loss_mask) ==
    get_tp_fp_fn(Nonlin(slf, x), y, Some(LossAxes(slf.batch_dice, x.shape)), loss_mask,
                 slf.square)

\* mutant: the first row is dropped whatever the layout
DropBackground_first_axis(score, do_bg, batch_dice) ==
    IF ~do_bg THEN TSliceFrom1(score, 0) ELSE score

\* if not self.do_bg: score = score[1:] if self.batch_dice else score[:, 1:]
DropBackground(score, do_bg, batch_dice) ==
    IF ~do_bg
    THEN (IF batch_dice THEN TSliceFrom1(score, 0) ELSE TSliceFrom1(score, 1))
    ELSE score

ForwardLocals(c, score, kept, result) ==
    [y_onehot |-> c.y_onehot, tp |-> c.tp, fp |-> c.fp, fn |-> c.fn,
     score |-> score, kept |-> kept, ret |-> result]

\* dc = dc.mean(); return 1 - dc
SoftDiceLoss_return(c, dc, kept) == ForwardLocals(c, dc, kept, RSub(One, TMean(kept)))

SoftDiceLoss_kept(slf, c, dc) ==
    SoftDiceLoss_return(c, dc, DropBackground(dc, slf.do_bg, slf.batch_dice))

\* mutant: the denominator counts the true positives once
SoftDiceLoss_dc_single_tp(slf, c) ==
    SoftDiceLoss_kept(slf, c,
        TDiv(TAddS(TMulS(c.tp, Rat(2, 1)), slf.smooth),
             TAddS(TAdd(TAdd(c.tp, c.fp), c.fn), slf.smooth)))

\* dc = (2 * tp + self.smooth) / (2 * tp + fp + fn + self.smooth)
SoftDiceLoss_dc(slf, c) ==
    SoftDiceLoss_kept(slf, c,
        TDiv(TAddS(TMulS(c.tp, Rat(2, 1)), slf.smooth),
             TAddS(TAdd(TAdd(TMulS(c.tp, Rat(2, 1)), c.fp), c.fn), slf.smooth)))

SoftDiceLoss_forward(slf, x, y, loss_mask) ==
    SoftDiceLoss_dc(slf, Confusion(slf, x, y, loss_mask))

\* iou = iou.mean(); return -iou
IoULoss_return(c, iou, kept) == ForwardLocals(c, iou, kept, RNeg(TMean(kept)))

IoULoss_kept(slf, c, iou) ==
    IoULoss_return(c, iou, DropBackground(iou, slf.do_bg, slf.batch_dice))

\* iou = (tp + self.smooth) / (tp + fp + fn + self.smooth)
IoULoss_iou(slf, c) ==
    IoULoss_kept(slf, c,
        TDiv(TAddS(c.tp, slf.smooth),
             TAddS(TAdd(TAdd(c.tp, c.fp), c.fn), slf.smooth)))

IoULoss_forward(slf, x, y, loss_mask) ==
    IoULoss_iou(slf, Confusion(slf, x, y, loss_mask))

\* self.alpha = 0.3, self.beta = 0.7
TverskyAlpha == Rat(3, 10)

TverskyBeta == Rat(7, 10)

\* tversky = tversky.mean(); return -tversky
TverskyLoss_return(c, tversky, kept) ==
    ForwardLocals(c, tversky, kept, RNeg(TMean(kept)))

TverskyLoss_kept(slf, c, tversky) ==
    TverskyLoss_return(c, tversky, DropBackground(tversky, slf.do_bg, slf.batch_dice))

\* mutant: alpha weighs the false negatives and beta the false positives
TverskyLoss_tversky_swapped(slf, c) ==
    TverskyLoss_kept(slf, c,
        TDiv(TAddS(c.tp, slf.smooth),
             TAddS(TAdd(TAdd(c.tp, TMulS(c.fn, TverskyAlpha)),
                        TMulS(c.fp, TverskyBeta)), slf.smooth)))

\* tversky = (tp + self.smooth) / (tp + self.alpha*fp + self.beta*fn + self.smooth)
TverskyLoss_tversky(slf, c) ==
    TverskyLoss_kept(slf, c,
        TDiv(TAddS(c.tp, slf.smooth),
             TAddS(TAdd(TAdd(c.tp, TMulS(c.fp, TverskyAlpha)),
                        TMulS(c.fn, TverskyBeta)), slf.smooth)))

TverskyLoss_forward(slf, x, y, loss_mask) ==
    TverskyLoss_tversky(slf, Confusion(slf, x, y, loss_mask))

\* self.beta = 1.5
AsymBeta == Rat(3, 2)

\* asym = asym.mean(); return -asym
AsymLoss_return(c, asym, kept) == ForwardLocals(c, asym, kept, RNeg(TMean(kept)))

AsymLoss_kept(slf, c, asym) ==
    AsymLoss_return(c, asym, DropBackground(asym, slf.do_bg, slf.batch_dice))

\* asym = (tp + self.smooth) / (tp + weight*fn + (1-weight)*fp + self.smooth)
AsymLoss_asym(slf, c, weight) ==
    AsymLoss_kept(slf, c,
        TDiv(TAddS(c.tp, slf.smooth),
             TAddS(TAdd(TAdd(c.tp, TMulS(c.fn, weight)),
                        TMulS(c.fp, RSub(One, weight))), slf.smooth)))

\* weight = (self.beta**2) / (1 + self.beta**2)
AsymLoss_forward(slf, x, y, loss_mask) ==
    AsymLoss_asym(slf, Confusion(slf, x, y, loss_mask),
                  RDiv(RMul(AsymBeta, AsymBeta), RAdd(One, RMul(AsymBeta, AsymBeta))))

\* self.r = 0.1
SSLossR == Rat(1, 10)

\* ss = ss.mean(); return ss
SSLoss_return(y_onehot, ss, kept) ==
    [y_onehot |-> y_onehot, score |-> ss, kept |-> kept, ret |-> TMean(kept)]

SSLoss_kept(slf, y_onehot, ss) ==
    SSLoss_return(y_onehot, ss, DropBackground(ss, slf.do_bg, slf.batch_dice))

\* specificity_part, sensitivity_part and ss = r * specificity + (1-r) * sensitivity
SSLoss_ss(slf, y_onehot, bg_onehot, squared_error, axes) ==
    SSLoss_kept(slf, y_onehot,
        TAdd(TMulS(TDiv(sum_tensor(TMul(squared_error, y_onehot), axes, FALSE),
                        TAddS(sum_tensor(y_onehot, axes, FALSE), slf.smooth)),
                   SSLossR),
             TMulS(TDiv(sum_tensor(TMul(squared_error, bg_onehot), axes, FALSE),
                        TAddS(sum_tensor(bg_onehot, axes, FALSE), slf.smooth)),
                   RSub(One, SSLossR))))

\* bg_onehot = 1 - y_onehot; squared_error = (y_onehot - net_output)**2
SSLoss_squared_error(slf, net_output, y_onehot, axes) ==
    SSLoss_ss(slf, y_onehot, TRSubS(One, y_onehot), TSquare(TSub(y_onehot, net_output)),
              axes)

\* y_onehot is built from the raw net_output's shape, then the nonlinearity is applied
SSLoss_forward(slf, net_output, gt, loss_mask) ==
    SSLoss_squared_error(slf, Nonlin(slf, net_output), SSLoss_onehot(net_output, gt),
                         LossAxes(slf.batch_dice, net_output.shape))

(***************************************************************************)
(* The inputs of the calls.  A caller passes a prediction of shape         *)
(* (B, C, *S) and a ground truth that is a label map of shape (B, *S) or   *)
(* (B, 1, *S), a one-hot tensor of shape (B, C, *S), or (nothing checks    *)
(* it) any other tensor of shape (B, C, *S).                               *)
(***************************************************************************)
\* one spatial axis of any size, or two spatial axes of size 2 or more
SpatialShapes ==
    {<<s>> : s \in 1..MaxNumel}
    \cup {<<s, t>> : s \in 2..MaxNumel, t \in 2..MaxNumel}

PredShapes ==
    {shp \in {<<b, c>> \o sp : b \in 1..MaxNumel, c \in 1..MaxNumel, sp \in SpatialShapes} :
        Numel(shp) <= MaxNumel}

Half == Rat(1, 2)

\* the class of voxel number v (row-major over (B, *S)) in the two label maps used
LabelPatterns == << <<1, 2, 0, 1, 0, 2, 2>>, <<2, 0, 1, 1, 0, 2, 0>> >>

\* the value of element number e (row-major) in the soft tensors used
SoftPatterns == << <<One, Zero, Half, Half, Zero, One, One>>,
                   <<Half, One, One, Zero, Half>> >>

\* the mask value of voxel number v
MaskPattern == <<1, 0, 1, 1, 0>>

LabelMap(shape, p, C) ==
    Tensor(shape, [v \in 1..Numel(shape) |->
        Rat(LabelPatterns[p][((v - 1) % Len(LabelPatterns[p])) + 1] % C, 1)])

SoftTensor(shape, p) ==
    Tensor(shape, [e \in 1..Numel(shape) |->
        SoftPatterns[p][((e - 1) % Len(SoftPatterns[p])) + 1]])

\* the one-hot encoding, of shape shp, of a label map of shape (B, *S)
OneHotOf(shp, labels) ==
    LET C == shp[2]
        inner == Inner(shp, 1)
    IN  Tensor(shp, [p \in 1..Numel(shp) |->
            IF labels.data[((p - 1) \div (C * inner)) * inner + ((p - 1) % inner) + 1]
                 = Rat(((p - 1) \div inner) % C, 1)
            THEN One ELSE Zero])

\* what a caller may pass as ground truth for a prediction of shape shp:
\* kind says what it is, labels is the label map it stands for
GroundTruths(shp) ==
    LET C == shp[2]
        bs == RemoveAt(shp, 1)
        b1s == SetAt(shp, 1, 1)
    IN  {[kind |-> "label_map", labels |-> LabelMap(bs, 1, C), y |-> LabelMap(bs, 1, C)],
         [kind |-> "label_map", labels |-> LabelMap(bs, 2, C), y |-> LabelMap(b1s, 2, C)],
         [kind |-> "one_hot", labels |-> LabelMap(bs, 1, C),
          y |-> OneHotOf(shp, LabelMap(bs, 1, C))],
         [kind |-> "tensor", labels |-> LabelMap(bs, 2, C), y |-> SoftTensor(shp, 2)]}

\* the predictions: the exact one-hot encoding of the ground truth's labels, or soft values
Predictions(shp, g) ==
    {[kind |-> "exact", x |-> OneHotOf(shp, g.labels)],
     [kind |-> "soft", x |-> SoftTensor(shp, 1)]}

Masks(shp) ==
    LET b1s == SetAt(shp, 1, 1)
    IN  {None,
         Some(Tensor(b1s, [v \in 1..Numel(b1s) |->
             Rat(MaskPattern[((v - 1) % Len(MaskPattern)) + 1], 1)]))}

SmoothValues == {One, Half}

RegionClasses == {"SoftDiceLoss", "IoULoss", "TverskyLoss", "AsymLoss", "SSLoss"}

\* __init__ of the five region losses
RegionObjects ==
    [cls : RegionClasses, apply_nonlin : {"None"}, batch_dice : BOOLEAN,
     do_bg : BOOLEAN, smooth : SmoothValues, square : BOOLEAN]

(***************************************************************************)
(* The specification of the region-overlap losses and of get_tp_fp_fn.     *)
(***************************************************************************)
Init ==
    /\ self \in RegionObjects
    /\ args = None
    /\ pc = "ready"
    /\ locals = None
    /\ ret = None
    /\ exc = ""

RegionForward(slf, x, y, loss_mask) ==
    CASE slf.cls = "SoftDiceLoss" -> SoftDiceLoss_forward(slf, x, y, loss_mask)
      [] slf.cls = "IoULoss" -> IoULoss_forward(slf, x, y, loss_mask)
      [] slf.cls = "TverskyLoss" -> TverskyLoss_forward(slf, x, y, loss_mask)
      [] slf.cls = "AsymLoss" -> AsymLoss_forward(slf, x, y, loss_mask)
      [] slf.cls = "SSLoss" -> SSLoss_forward(slf, x, y, loss_mask)

\* the arguments of a call, and what the caller knows about them
CallArgs(p, g, m) ==
    [x |-> p.x, x_kind |-> p.kind, y |-> g.y, y_kind |-> g.kind,
     labels |-> g.labels, loss_mask |-> m]

\* the caller picks the arguments of a call on the object of class cls
ChooseArgs(cls) ==
    /\ pc = "ready"
    /\ self.cls = cls
    /\ \E shp \in PredShapes : \E g \in GroundTruths(shp) :
       \E p \in Predictions(shp, g) : \E m \in Masks(shp) :
          args' = CallArgs(p, g, m)

\* the call returns
Return ==
    /\ ret' = locals'.ret
    /\ pc' = "done"
    /\ exc' = ""
    /\ UNCHANGED self

SoftDiceLoss_call ==
    /\ ChooseArgs("SoftDiceLoss")
    /\ locals' = SoftDiceLoss_forward(self, args'.x, args'.y, args'.loss_mask)
    /\ Return

IoULoss_call ==
    /\ ChooseArgs("IoULoss")
    /\ locals' = IoULoss_forward(self, args'.x, args'.y, args'.loss_mask)
    /\ Return

TverskyLoss_call ==
    /\ ChooseArgs("TverskyLoss")
    /\ locals' = TverskyLoss_forward(self, args'.x, args'.y, args'.loss_mask)
    /\ Return

AsymLoss_call ==
    /\ ChooseArgs("AsymLoss")
    /\ locals' = AsymLoss_forward(self, args'.x, args'.y, args'.loss_mask)
    /\ Return

SSLoss_call ==
    /\ ChooseArgs("SSLoss")
    /\ locals' = SSLoss_forward(self, args'.x, args'.y, args'.loss_mask)
    /\ Return

\* a direct call get_tp_fp_fn(net_output, gt, axes, mask, square)
AxesChoices(shp) == {None, Some(<<0>> \o Range(2, Len(shp))), Some(<<2, 0, 2>>)}

get_tp_fp_fn_call ==
    /\ pc = "ready"
    /\ self.cls = "function"
    /\ \E shp \in PredShapes : \E g \in GroundTruths(shp) :
       \E p \in Predictions(shp, g) : \E m \in Masks(shp) :
       \E axes \in AxesChoices(shp) : \E square \in BOOLEAN :
          args' = [x |-> p.x, x_kind |-> p.kind, y |-> g.y, y_kind |-> g.kind,
                   labels |-> g.labels, loss_mask |-> m, axes |-> axes,
                   square |-> square]
    /\ locals' = get_tp_fp_fn(args'.x, args'.y, args'.axes, args'.loss_mask,
                              args'.square)
    /\ ret' = <<locals'.tp, locals'.fp, locals'.fn>>
    /\ pc' = "done"
    /\ exc' = ""
    /\ UNCHANGED self

Next ==
    \/ SoftDiceLoss_call
    \/ IoULoss_call
    \/ TverskyLoss_call
    \/ AsymLoss_call
    \/ SSLoss_call

Spec == Init /\ [][Next]_vars

(***************************************************************************)
(* The specification of direct calls of get_tp_fp_fn.                      *)
(***************************************************************************)
InitConfusion ==
    /\ self = [cls |-> "function"]
    /\ args = None
    /\ pc = "ready"
    /\ locals = None
    /\ ret = None
    /\ exc = ""

NextConfusion == get_tp_fp_fn_call

SpecConfusion == InitConfusion /\ [][NextConfusion]_vars

(***************************************************************************)
(* Cross-entropy.  The logarithm stays symbolic: a loss value is           *)
(* q + c * ln(a) with q, c, a rational and a > 0, written Real(q, c, a),   *)
(* in the normal form c = 0, a = 1 when the logarithmic part is zero.  An  *)
(* unreduced per-voxel loss -ln(p) is kept as the probability p, and a     *)
(* tensor of logits as the tensor of their exponentials (see               *)
(* softmax_helper).                                                        *)
(***************************************************************************)
Real(q, c, a) ==
    IF c = Zero \/ a = One THEN [q |-> q, c |-> Zero, a |-> One]
    ELSE [q |-> q, c |-> c, a |-> a]

\* ce_loss + dc_loss, dc_loss a rational scalar
RealAddQ(r, q) == Real(RAdd(r.q, q), r.c, r.a)

RECURSIVE RPow(_, _)
RPow(a, k) == IF k = 0 THEN One ELSE RMul(a, RPow(a, k - 1))

RECURSIVE RProdSeq(_)
RProdSeq(s) == IF s = <<>> THEN One ELSE RMul(Head(s), RProdSeq(Tail(s)))

RECURSIVE SumSeq(_)
SumSeq(s) == IF s = <<>> THEN 0 ELSE Head(s) + SumSeq(Tail(s))

\* inp.transpose(d0, d1)
TTranspose(t, d0, d1) ==
    LET Swap(i) == [k \in 1..Len(i) |->
                       IF k = d0 + 1 THEN i[d1 + 1]
                       ELSE IF k = d1 + 1 THEN i[d0 + 1] ELSE i[k]]
        shp == Swap(t.shape)
    IN  Tensor(shp, [p \in 1..Numel(shp) |->
            t.data[Flat(Swap(Coord(p - 1, shp)), t.shape) + 1]])

\* while i1 < len(inp.shape): inp = inp.transpose(i0, i1); i0 += 1; i1 += 1
RECURSIVE MoveClassAxisLast(_, _, _)
MoveClassAxisLast(inp, i0, i1) ==
    IF i1 < Len(inp.shape)
    THEN MoveClassAxisLast(TTranspose(inp, i0, i1), i0 + 1, i1 + 1)
    ELSE inp

\* inp = inp.contiguous().view(-1, num_classes); target = target.view(-1,)
FlattenViews(inp1, target1, num_classes) ==
    [inp |-> TView(inp1, <<Numel(inp1.shape) \div num_classes, num_classes>>),
     target |-> TView(target1, <<Numel(target1.shape)>>)]

\* the flattening shared by CrossentropyND and WeightedCrossEntropyLoss
FlattenForCE(inp, target) ==
    FlattenViews(MoveClassAxisLast(inp, 1, 2), TLong(target), inp.shape[2])

\* torch.nn.CrossEntropyLoss on inp (N, C) and target (N,): the softmax
\* probability of the target class of every row
TargetProbabilities(f) ==
    Tuple([n \in 1..f.inp.shape[1] |->
        RDiv(f.inp.data[(n - 1) * f.inp.shape[2] + RTrunc(f.target.data[n]) + 1],
             RSumSeq(SubSeq(f.inp.data, (n - 1) * f.inp.shape[2] + 1,
                            n * f.inp.shape[2])))])

\* the class weight of every row (1 without weights)
RowWeights(weight, target) ==
    Tuple([n \in 1..Len(target.data) |->
        IF weight = None THEN 1 ELSE Val(weight)[RTrunc(target.data[n]) + 1]])

\* reduction='mean': sum_n w_n * (-ln p_n) / sum_n w_n = -(1/W) * ln(prod_n p_n^w_n)
CrossEntropyMean(p, w) ==
    Real(Zero, RDiv(RNeg(One), Rat(SumSeq(w), 1)),
         RProdSeq([n \in 1..Len(p) |-> RPow(p[n], w[n])]))

\* super().forward(inp, target): the mean, or with reduce=False the per-voxel losses
CrossEntropyLoss_forward(slf, f, p) ==
    IF slf.reduce
    THEN CrossEntropyMean(p, RowWeights(None, f.target))
    ELSE Tensor(<<Len(p)>>, p)

CrossentropyND_flat(slf, f) == CrossEntropyLoss_forward(slf, f, TargetProbabilities(f))

CrossentropyND_forward(slf, inp, target) ==
    CrossentropyND_flat(slf, FlattenForCE(inp, target))

\* wce_loss = torch.nn.CrossEntropyLoss(weight=self.weight); wce_loss(inp, target)
WeightedCrossEntropyLoss_flat(slf, f) ==
    CrossEntropyMean(TargetProbabilities(f), RowWeights(slf.weight, f.target))

WeightedCrossEntropyLoss_forward(slf, inp, target) ==
    WeightedCrossEntropyLoss_flat(slf, FlattenForCE(inp, target))

(***************************************************************************)
(* TopKLoss.  torch.topk(res, K, sorted=False) returns the K largest       *)
(* losses in an order it does not specify, and any of the tied ones: the   *)
(* caller of TopKLoss_forward chooses order, the positions taken.          *)
(***************************************************************************)
\* mutant: the count of voxels kept is rounded up
TopKCount_ceil(num_voxels, k) == (num_voxels * k + 99) \div 100

\* int(num_voxels * self.k / 100)
TopKCount(num_voxels, k) == (num_voxels * k) \div 100

\* the sequences of K distinct positions holding K largest losses (smallest p)
TopKOrders(p, K) ==
    {o \in [1..K -> 1..Len(p)] :
        /\ \A a \in 1..K : \A b \in 1..K : a # b => o[a] # o[b]
        /\ \A a \in 1..K : \A j \in 1..Len(p) :
              (\A b \in 1..K : o[b] # j) => ~RLess(p[j], p[o[a]])}

\* res = super().forward(inp, target[:, 0].long())
TopKLoss_res(inp, target) ==
    CrossentropyND_forward([reduce |-> FALSE], inp, TLong(TSelect(target, 1, 0)))

\* return res.mean()
TopKLoss_mean(res, K, top) ==
    [res |-> res, K |-> K, topk |-> top,
     ret |-> IF top = <<>> THEN Real(NaN, Zero, One)
             ELSE CrossEntropyMean(top, [a \in 1..Len(top) |-> 1])]

\* res, _ = torch.topk(res.view((-1,)), K, sorted=False)
TopKLoss_topk(slf, res, order) ==
    TopKLoss_mean(res, TopKCount(Numel(res.shape), slf.k),
                  Tuple([a \in 1..Len(order) |-> res.data[order[a]]]))

TopKLoss_forward(slf, inp, target, order) ==
    TopKLoss_topk(slf, TopKLoss_res(inp, target), order)

\* what torch.topk may return for the losses res
TopKLoss_topk_orders(slf, res) ==
    TopKOrders(res.data, TopKCount(Numel(res.shape), slf.k))

TopKLoss_orders(slf, inp, target) == TopKLoss_topk_orders(slf, TopKLoss_res(inp, target))

(***************************************************************************)
(* The compound losses.  A forward that raises has exc set and ret None,   *)
(* one that returns has ret = Some(value).                                 *)
(***************************************************************************)
\* mutant: an unknown aggregation mode falls back to the sum
DC_and_CE_loss_aggregate_default(slf, dc_loss, ce_loss) ==
    [dc_loss |-> dc_loss, ce_loss |-> ce_loss,
     ret |-> Some(RealAddQ(ce_loss, dc_loss)), exc |-> ""]

\* if self.aggregate == "sum": result = ce_loss + dc_loss
\* else: raise NotImplementedError("nah son")
DC_and_CE_loss_aggregate(slf, dc_loss, ce_loss) ==
    IF slf.aggregate = "sum"
    THEN [dc_loss |-> dc_loss, ce_loss |-> ce_loss,
          ret |-> Some(RealAddQ(ce_loss, dc_loss)), exc |-> ""]
    ELSE [dc_loss |-> dc_loss, ce_loss |-> ce_loss,
          ret |-> None, exc |-> "NotImplementedError"]

DC_and_CE_loss_forward(slf, net_output, target) ==
    DC_and_CE_loss_aggregate(slf,
        SoftDiceLoss_forward(slf.dc, net_output, target, None).ret,
        CrossentropyND_forward(slf.ce, net_output, target))

DC_and_topk_loss_aggregate(slf, dc_loss, topk) ==
    IF slf.aggregate = "sum"
    THEN [dc_loss |-> dc_loss, ce_loss |-> topk.ret, topk |-> topk.topk,
          ret |-> Some(RealAddQ(topk.ret, dc_loss)), exc |-> ""]
    ELSE [dc_loss |-> dc_loss, ce_loss |-> topk.ret, topk |-> topk.topk,
          ret |-> None, exc |-> "NotImplementedError"]

DC_and_topk_loss_forward(slf, net_output, target, order) ==
    DC_and_topk_loss_aggregate(slf,
        SoftDiceLoss_forward(slf.dc, net_output, target, None).ret,
        TopKLoss_forward(slf.ce, net_output, target, order))

\* the min of torch.clamp(dc_loss, 1e-6)
ClampFloor == Rat(1, 1000000)

\* gamma=0.3
ExpLogGamma == Rat(3, 10)

\* explog_loss = 0.8 * (-ln(clamped)) ^ gamma + 0.2 * wce_loss is returned as
\* the triple of clamped, gamma and wce_loss that determines it
ExpLog_loss_explog(slf, dc_loss, wce_loss, clamped) ==
    [dc_loss |-> dc_loss, wce_loss |-> wce_loss, clamped |-> clamped,
     ret |-> Some([clamped |-> clamped, gamma |-> slf.gamma, wce |-> wce_loss]),
     exc |-> ""]

\* torch.clamp(dc_loss, 1e-6)
ExpLog_loss_clamp(slf, dc_loss, wce_loss) ==
    ExpLog_loss_explog(slf, dc_loss, wce_loss, RMax(dc_loss, ClampFloor))

\* dc_loss = -self.dc(net_output, target); wce_loss = self.wce(net_output, target)
ExpLog_loss_forward(slf, net_output, target) ==
    ExpLog_loss_clamp(slf,
        RNeg(SoftDiceLoss_forward(slf.dc, net_output, target, None).ret),
        WeightedCrossEntropyLoss_forward(slf.wce, net_output, target))

(***************************************************************************)
(* The inputs and objects of the compound losses: logits (kept as their    *)
(* exponentials) of two or more classes, and a label map.                  *)
(***************************************************************************)
CompoundShapes == {shp \in PredShapes : shp[2] >= 2}

\* e^logit of element number e (row-major) in the two predictions used
LogitPatterns == << <<1, 3, 1, 1, 2, 1, 3>>, <<2, 1, 1, 3, 1>> >>

LogitTensor(shape, p) ==
    Tensor(shape, [e \in 1..Numel(shape) |->
        Rat(LogitPatterns[p][((e - 1) % Len(LogitPatterns[p])) + 1], 1)])

\* label maps of shape (B, 1, *S) and, where with_flat, of shape (B, *S)
CompoundTargets(shp, with_flat) ==
    {LabelMap(SetAt(shp, 1, 1), q, shp[2]) : q \in 1..Len(LabelPatterns)}
    \cup (IF with_flat THEN {LabelMap(RemoveAt(shp, 1), 1, shp[2])} ELSE {})

Aggregates == {"sum", "mean", "max"}

\* the percentages k of TopKLoss
TopKValues == {10, 50, 75, 100}

\* SoftDiceLoss(apply_nonlin=softmax_helper, **soft_dice_kwargs)
CompoundDice ==
    [cls : {"SoftDiceLoss"}, apply_nonlin : {"softmax_helper"}, batch_dice : BOOLEAN,
     do_bg : BOOLEAN, smooth : {One}, square : {FALSE}]

TopKObjects == [cls : {"TopKLoss"}, k : TopKValues, reduce : {FALSE}]

\* class weights of WeightedCrossEntropyLoss for C classes
ClassWeights(C) == {None, Some([c \in 1..C |-> IF c = 1 THEN 1 ELSE 2])}

CompoundObjects ==
    [cls : {"DC_and_CE_loss"}, aggregate : Aggregates,
     ce : {[cls |-> "CrossentropyND", reduce |-> TRUE]}, dc : CompoundDice]
    \cup [cls : {"DC_and_topk_loss"}, aggregate : Aggregates,
          ce : TopKObjects, dc : CompoundDice]
    \cup [cls : {"ExpLog_loss"}, wce : {[cls |-> "WeightedCrossEntropyLoss"]},
          dc : CompoundDice, gamma : {ExpLogGamma}]
    \cup TopKObjects

(***************************************************************************)
(* The specification of the compound losses and of TopKLoss.               *)
(***************************************************************************)
InitCompound ==
    /\ self \in CompoundObjects
    /\ args = None
    /\ pc = "ready"
    /\ locals = None
    /\ ret = None
    /\ exc = ""

DC_and_CE_loss_call ==
    /\ pc = "ready"
    /\ self.cls = "DC_and_CE_loss"
    /\ \E shp \in CompoundShapes : \E p \in 1..Len(LogitPatterns) :
       \E t \in CompoundTargets(shp, TRUE) :
          args' = [net_output |-> LogitTensor(shp, p), target |-> t]
    /\ locals' = DC_and_CE_loss_forward(self, args'.net_output, args'.target)
    /\ ret' = locals'.ret
    /\ exc' = locals'.exc
    /\ pc' = "done"
    /\ UNCHANGED self

DC_and_topk_loss_call ==
    /\ pc = "ready"
    /\ self.cls = "DC_and_topk_loss"
    /\ \E shp \in CompoundShapes : \E p \in 1..Len(LogitPatterns) :
       \E t \in CompoundTargets(shp, FALSE) :
       \E order \in TopKLoss_orders(self.ce, LogitTensor(shp, p), t) :
          /\ args' = [net_output |-> LogitTensor(shp, p), target |-> t]
          /\ locals' = DC_and_topk_loss_forward(self, args'.net_output, args'.target,
                                                order)
    /\ ret' = locals'.ret
    /\ exc' = locals'.exc
    /\ pc' = "done"
    /\ UNCHANGED self

\* the class weights are set on the object at construction; they are chosen
\* here with the call because their length is the number of classes
ExpLog_loss_call ==
    /\ pc = "ready"
    /\ self.cls = "ExpLog_loss"
    /\ \E shp \in CompoundShapes : \E p \in 1..Len(LogitPatterns) :
       \E t \in CompoundTargets(shp, TRUE) : \E w \in ClassWeights(shp[2]) :
          args' = [net_output |-> LogitTensor(shp, p), target |-> t, weight |-> w]
    /\ locals' = ExpLog_loss_forward(
                     [self EXCEPT !.wce = [cls |-> "WeightedCrossEntropyLoss",
                                           weight |-> args'.weight]],
                     args'.net_output, args'.target)
    /\ ret' = locals'.ret
    /\ exc' = locals'.exc
    /\ pc' = "done"
    /\ UNCHANGED self

TopKLoss_call ==
    /\ pc = "ready"
    /\ self.cls = "TopKLoss"
    /\ \E shp \in CompoundShapes : \E p \in 1..Len(LogitPatterns) :
       \E t \in CompoundTargets(shp, FALSE) :
       \E order \in TopKLoss_orders(self, LogitTensor(shp, p), t) :
          /\ args' = [inp |-> LogitTensor(shp, p), target |-> t]
          /\ locals' = TopKLoss_forward(self, args'.inp, args'.target, order)
    /\ ret' = Some(locals'.ret)
    /\ exc' = ""
    /\ pc' = "done"
    /\ UNCHANGED self

NextCompound ==
    \/ DC_and_CE_loss_call
    \/ DC_and_topk_loss_call
    \/ ExpLog_loss_call
    \/ TopKLoss_call

SpecCompound == InitCompound /\ [][NextCompound]_vars

(***************************************************************************)
(* kld_loss.  A value is a Python float or a tensor:                       *)
(*   [kind |-> "float" or "tensor", shape |-> ..., data |-> ...],          *)
(* a float having the shape <<>> of a scalar.  Transcendental functions    *)
(* stay exact by the choice of what is stored:                             *)
(*   raw_output  holds sigmoid(raw_output), 0 and 1 where it saturates;    *)
(*   logvar1     holds exp(0.5 * logvar1), the standard deviation, so that *)
(*               exp(logvar1) is its square and 0.5 * logvar1 its          *)
(*               logarithm;                                                *)
(*   a logarithm ln(x) is kept as x, and 0.5 * ln(x * x) as |x|.           *)
(***************************************************************************)
PyFloat(r) == [kind |-> "float", shape |-> <<>>, data |-> <<r>>]

PyTensor(shape, data) == [kind |-> "tensor", shape |-> shape, data |-> Tuple(data)]

ROp(op, x, y) ==
    CASE op = "add" -> RAdd(x, y)
      [] op = "sub" -> RSub(x, y)
      [] op = "mul" -> RMul(x, y)
      [] op = "div" -> RDiv(x, y)

\* the operand that gives a broadcast result its shape
Broader(a, b) ==
    IF Len(a.data) > Len(b.data)
       \/ (Len(a.data) = Len(b.data) /\ Len(a.shape) >= Len(b.shape))
    THEN a ELSE b

\* a op b elementwise, a one-element operand being broadcast; two floats give a float
PyOp(op, a, b) ==
    [kind |-> IF a.kind = "float" /\ b.kind = "float" THEN "float" ELSE "tensor",
     shape |-> Broader(a, b).shape,
     data |-> Tuple([k \in 1..Len(Broader(a, b).data) |->
                 ROp(op, a.data[IF Len(a.data) = 1 THEN 1 ELSE k],
                         b.data[IF Len(b.data) = 1 THEN 1 ELSE k])])]

\* v ** 2
PySquare(v) == PyOp("mul", v, v)

PyAbs(v) ==
    [kind |-> v.kind, shape |-> v.shape,
     data |-> Tuple([k \in 1..Len(v.data) |-> Rat(Abs(v.data[k].n), v.data[k].d)])]

\* F.relu(mu1, inplace=True): the tensor passed is overwritten and returned
relu(t) ==
    PyTensor(t.shape, [k \in 1..Len(t.data) |-> RMax(t.data[k], Zero)])

\* torch.sigmoid(raw_output).mean(): a tensor without dimensions
SigmoidMean(raw_output) == PyTensor(<<>>, <<TMean(raw_output)>>)

\* the builtin min(a, b) evaluates bool(b < a), which raises RuntimeError for a
\* tensor result of more than one element
MinRaises(a, b) == Len(Broader(a, b).data) > 1

PyMin(a, b) == IF RLess(b.data[1], a.data[1]) THEN b ELSE a

\* gamma = 2.
gamma == Rat(2, 1)

\* v expanded to n elements
Expanded(v, n) == [k \in 1..n |-> v.data[IF Len(v.data) = 1 THEN 1 ELSE k]]

\* torch.mean(torch.sum(loss, dim=-1), dim=0) of the loss q + ln(r): the sum of
\* all elements over the size of the first axis, when there are two axes or more
SumThenMean(q, r, big) ==
    Real(RDiv(RSumSeq(Expanded(q, Len(big.data))),
              Rat(IF Len(big.shape) >= 2 THEN big.shape[1] ELSE 1, 1)),
         Rat(1, IF Len(big.shape) >= 2 THEN big.shape[1] ELSE 1),
         RProdSeq(Expanded(r, Len(big.data))))

\* an exception leaves kld_loss: nothing is returned; mu1_after is what the
\* caller's mu1 tensor holds from then on
kld_loss_raise(e, mu1_after) == [exc |-> e, ret |-> None, mu1_after |-> mu1_after]

\* return loss, threshold.mean()
kld_loss_return(mu1_after, mu1, var1, log_sigma1, mu2, sigma2, loss, std, threshold) ==
    [exc |-> "", ret |-> Some(<<loss, TMean(threshold)>>), mu1_after |-> mu1_after,
     mu1 |-> mu1, var1 |-> var1, log_sigma1 |-> log_sigma1, mu2 |-> mu2,
     sigma2 |-> sigma2, var2 |-> PySquare(sigma2), std |-> std,
     threshold |-> threshold]

\* std = torch.exp(0.5 * logvar1); eps = torch.randn_like(std)
\* threshold = eps * std + mu1
kld_loss_threshold(a, mu1_after, mu1, var1, log_sigma1, mu2, sigma2, loss) ==
    kld_loss_return(mu1_after, mu1, var1, log_sigma1, mu2, sigma2, loss, a.logvar1,
                    PyOp("add", PyOp("mul", a.eps, a.logvar1), mu1))

\* loss = torch.mean(torch.sum(loss, dim=-1), dim=0): TypeError for a float
kld_loss_sum(a, mu1_after, mu1, var1, log_sigma1, mu2, sigma2, q, r) ==
    IF q.kind = "float" /\ r.kind = "float"
    THEN kld_loss_raise("TypeError", mu1_after)
    ELSE kld_loss_threshold(a, mu1_after, mu1, var1, log_sigma1, mu2, sigma2,
                            SumThenMean(q, r, Broader(q, r)))

\* loss = log_sigma2 - log_sigma1 + 0.5 * (var1 + (mu1 - mu2)**2) / var2 - 0.5
\* the logarithms make the part ln(sigma2 / exp(log_sigma1)), the rest is rational
kld_loss_formula(a, mu1_after, mu1, var1, log_sigma1, mu2, sigma2) ==
    kld_loss_sum(a, mu1_after, mu1, var1, log_sigma1, mu2, sigma2,
        PyOp("sub",
             PyOp("div",
                  PyOp("mul", PyFloat(Half),
                       PyOp("add", var1, PySquare(PyOp("sub", mu1, mu2)))),
                  PySquare(sigma2)),
             PyFloat(Half)),
        PyOp("div", [sigma2 EXCEPT !.kind = "float"], log_sigma1))

\* var2 = sigma2**2; log_sigma2 = math.log(sigma2): ValueError unless sigma2 > 0
kld_loss_log_sigma2(a, mu1_after, mu1, var1, log_sigma1, mu2, sigma2) ==
    IF ~RLess(Zero, sigma2.data[1])
    THEN kld_loss_raise("ValueError", mu1_after)
    ELSE kld_loss_formula(a, mu1_after, mu1, var1, log_sigma1, mu2, sigma2)

\* if flag_std2 == 0 ... elif flag_std2 == 1 ... else: raise NotImplementedError
kld_loss_flag_std2(a, mu1_after, mu1, var1, log_sigma1, mu2) ==
    IF a.flag_std2 = 0
    THEN kld_loss_log_sigma2(a, mu1_after, mu1, var1, log_sigma1, mu2, a.std2)
    ELSE IF a.flag_std2 = 1
    THEN kld_loss_log_sigma2(a, mu1_after, mu1, var1, log_sigma1, mu2,
             PyMin(PyOp("div", PyOp("sub", mu2, PyFloat(Zero)), PyFloat(gamma)),
                   PyOp("div", PyOp("sub", PyFloat(One), mu2), PyFloat(gamma))))
    ELSE kld_loss_raise("NotImplementedError", mu1_after)

\* if flag_mu2 == 0 ... elif flag_mu2 == 1 ... else: raise NotImplementedError
kld_loss_flag_mu2(a, mu1_after, mu1, var1, log_sigma1) ==
    IF a.flag_mu2 = 0
    THEN kld_loss_flag_std2(a, mu1_after, mu1, var1, log_sigma1, a.mu2)
    ELSE IF a.flag_mu2 = 1
    THEN kld_loss_flag_std2(a, mu1_after, mu1, var1, log_sigma1,
                            SigmoidMean(a.raw_output))
    ELSE kld_loss_raise("NotImplementedError", mu1_after)

\* var1 = sigma1**2; log_sigma1 = 0.5*math.log(var1): ValueError for var1 = 0
kld_loss_log_var1(a, mu1_after, mu1, sigma1) ==
    IF sigma1.data[1] = Zero
    THEN kld_loss_raise("ValueError", mu1_after)
    ELSE kld_loss_flag_mu2(a, mu1_after, mu1, PySquare(sigma1),
                           [PyAbs(sigma1) EXCEPT !.kind = "float", !.shape = <<>>])

\* sigma1 = min(std_lower, std_upper)
kld_loss_min(a, mu1_after, mu1, std_lower, std_upper) ==
    IF MinRaises(std_lower, std_upper)
    THEN kld_loss_raise("RuntimeError", mu1_after)
    ELSE kld_loss_log_var1(a, mu1_after, mu1, PyMin(std_lower, std_upper))

\* if flag_std1 == 0 ... elif 1 ... elif 2 ... else: raise NotImplementedError
kld_loss_flag_std1(a, mu1_after, mu1) ==
    IF a.flag_std1 = 0
    THEN kld_loss_flag_mu2(a, mu1_after, mu1, PySquare(a.logvar1), a.logvar1)
    ELSE IF a.flag_std1 = 1
    THEN kld_loss_min(a, mu1_after, mu1,
                      PyOp("div", PyOp("sub", mu1, PyFloat(Zero)), PyFloat(gamma)),
                      PyOp("div", PyOp("sub", PyFloat(One), mu1), PyFloat(gamma)))
    ELSE IF a.flag_std1 = 2
    THEN kld_loss_log_var1(a, mu1_after, mu1, a.std2)
    ELSE kld_loss_raise("NotImplementedError", mu1_after)

\* if flag_mu1 == 0 ... elif 1 ... elif 2 ... else: raise NotImplementedError
kld_loss(a) ==
    IF a.flag_mu1 = 0
    THEN kld_loss_flag_std1(a, relu(a.mu1), relu(a.mu1))
    ELSE IF a.flag_mu1 = 1
    THEN kld_loss_flag_std1(a, a.mu1, SigmoidMean(a.raw_output))
    ELSE IF a.flag_mu1 = 2
    THEN kld_loss_flag_std1(a, a.mu1, a.mu2)
    ELSE kld_loss_raise("NotImplementedError", a.mu1)

(***************************************************************************)
(* The specification of kld_loss: every combination of flag values up to   *)
(* MaxFlag, posteriors of one or two elements, saturated and unsaturated   *)
(* predictions, prior means inside, on the border of and outside [0, 1].   *)
(***************************************************************************)
MaxFlag == 3

\* mu1 and exp(0.5 * logvar1), of the same shape
Posteriors ==
    {[mu1 |-> PyTensor(<<1>>, <<m>>), logvar1 |-> PyTensor(<<1>>, <<One>>)] :
        m \in {Rat(-1, 2), Zero, Rat(1, 4), One, Rat(3, 2)}}
    \cup {[mu1 |-> PyTensor(<<1, 1>>, <<Rat(3, 4)>>),
           logvar1 |-> PyTensor(<<1, 1>>, <<Rat(1, 4)>>)],
          [mu1 |-> PyTensor(<<2>>, <<Rat(1, 4), Rat(-1, 2)>>),
           logvar1 |-> PyTensor(<<2>>, <<Half, One>>)],
          [mu1 |-> PyTensor(<<2, 1>>, <<Half, Rat(1, 4)>>),
           logvar1 |-> PyTensor(<<2, 1>>, <<Rat(1, 4), Half>>)]}

\* sigmoid(raw_output)
RawOutputs ==
    {Tensor(<<2, 1>>, <<Zero, Zero>>), Tensor(<<2, 1>>, <<Rat(1, 4), Rat(3, 4)>>),
     Tensor(<<1, 1>>, <<One>>)}

PriorMeans == {Half, Zero, Rat(3, 2)}

PriorStds == {Rat(1, 8), Rat(1, 4)}

\* the noise torch.randn_like draws, the same for every element
EpsValues == {RNeg(One), Rat(2, 1)}

InitKld ==
    /\ self = [cls |-> "kld_loss"]
    /\ args = None
    /\ pc = "ready"
    /\ locals = None
    /\ ret = None
    /\ exc = ""

kld_loss_call ==
    /\ pc = "ready"
    /\ self.cls = "kld_loss"
    /\ \E post \in Posteriors : \E raw_output \in RawOutputs :
       \E mu2 \in PriorMeans : \E std2 \in PriorStds : \E eps \in EpsValues :
       \E flag_mu1 \in 0..MaxFlag : \E flag_std1 \in 0..MaxFlag :
       \E flag_mu2 \in 0..MaxFlag : \E flag_std2 \in 0..MaxFlag :
          args' = [raw_output |-> raw_output, mu1 |-> post.mu1,
                   logvar1 |-> post.logvar1, mu2 |-> PyFloat(mu2),
                   std2 |-> PyFloat(std2), flag_mu1 |-> flag_mu1,
                   flag_std1 |-> flag_std1, flag_mu2 |-> flag_mu2,
                   flag_std2 |-> flag_std2,
                   eps |-> PyTensor(post.logvar1.shape,
                                    [k \in 1..Len(post.logvar1.data) |-> eps])]
    /\ locals' = kld_loss(args')
    /\ ret' = locals'.ret
    /\ exc' = locals'.exc
    /\ pc' = "done"
    /\ UNCHANGED self

NextKld == kld_loss_call

SpecKld == InitKld /\ [][NextKld]_vars

(***************************************************************************)
(* DisPenalizedCE.  The distance map is computed for a ground truth of     *)
(* shape (B, 1, X) or (B, X) with B >= 2 and X >= 2, which np.squeeze      *)
(* turns into B rows of X voxels: the Euclidean distance transform of a    *)
(* row is then the distance in voxels to the nearest background voxel.     *)
(* What scipy reports for a mask without any background voxel is left to   *)
(* the caller of the model, as far: far[j] is the distance reported at     *)
(* voxel j.  A per-voxel loss -ln(p) is kept as p, and its product with    *)
(* the multiplier w as the pair of p and w.                                *)
(***************************************************************************)
\* distance_transform_edt(mask) of one row
distance_transform_edt(mask, far) ==
    Tuple([j \in 1..Len(mask) |->
        IF ~mask[j] THEN 0
        ELSE IF \A i \in 1..Len(mask) : mask[i] THEN far[j]
        ELSE SeqMin({Abs(j - i) : i \in {i \in 1..Len(mask) : ~mask[i]}})])

\* edt / np.max(edt), m being np.max(edt): 0/0 is nan
compute_edts_normalised(edt, m) ==
    Tuple([j \in 1..Len(edt) |-> RDiv(Rat(edt[j], 1), Rat(m, 1))])

compute_edts_scaled(edt) ==
    compute_edts_normalised(edt, SeqMax({edt[i] : i \in 1..Len(edt)}))

\* edt = (np.max(edt) - edt) * mask, m being np.max(edt)
compute_edts_flipped(mask, edt, m) ==
    compute_edts_scaled(Tuple([j \in 1..Len(edt) |-> IF mask[j] THEN m - edt[j] ELSE 0]))

\* the term of posmask, or of negmask, edt being its distance transform
compute_edts_term(mask, edt) ==
    compute_edts_flipped(mask, edt, SeqMax({edt[i] : i \in 1..Len(edt)}))

\* res[i] = pos_edt / np.max(pos_edt) + neg_edt / np.max(neg_edt)
compute_edts_sum(pos_edt, neg_edt) ==
    Tuple([j \in 1..Len(pos_edt) |-> RAdd(pos_edt[j], neg_edt[j])])

compute_edts_masks(posmask, negmask, far) ==
    compute_edts_sum(compute_edts_term(posmask, distance_transform_edt(posmask, far)),
                     compute_edts_term(negmask, distance_transform_edt(negmask, far)))

\* posmask = GT[i]; negmask = ~posmask
compute_edts_row(posmask, far) ==
    compute_edts_masks(posmask, Tuple([k \in 1..Len(posmask) |-> ~posmask[k]]), far)

\* for i in range(GT.shape[0]): the rows i and after, X being the length of a row
RECURSIVE compute_edts_rows(_, _, _, _)
compute_edts_rows(GT, i, X, far) ==
    IF i >= GT.shape[1] THEN <<>>
    ELSE compute_edts_row(SubSeq(GT.data, i * X + 1, (i + 1) * X), far)
            \o compute_edts_rows(GT, i + 1, X, far)

\* GT = np.squeeze(GT), of shape (B, X); GT is target > 0.5
compute_edts_forPenalizedLoss(GT, far) ==
    Tensor(<<GT.shape[1], Len(GT.data) \div GT.shape[1]>>,
           compute_edts_rows(GT, 0, Len(GT.data) \div GT.shape[1], far))

\* dist = compute_edts_forPenalizedLoss(target.cpu().numpy() > 0.5) + 1.0
\* dist = dist.view(-1,)
DisPenalizedCE_dist(target, far) ==
    TView(TAddS(compute_edts_forPenalizedLoss(
                    [shape |-> target.shape,
                     data |-> Tuple([k \in 1..Len(target.data) |->
                                  RLess(Half, target.data[k])])], far), One),
          <<Len(target.data)>>)

\* mutant: the mean of the weighted loss is returned, as the terms
\* (sum of the multipliers of every p) of the sum over the N voxels
DisPenalizedCE_return_weighted(dist, loss, weighted_loss) ==
    [exc |-> "",
     ret |-> Some([N |-> Len(weighted_loss),
                   terms |-> [q \in {weighted_loss[k].p : k \in 1..Len(weighted_loss)} |->
                       RSumSeq([k \in 1..Len(weighted_loss) |->
                           IF weighted_loss[k].p = q THEN weighted_loss[k].w
                           ELSE Zero])]]),
     dist |-> dist, loss |-> loss, weighted_loss |-> weighted_loss]

\* return loss.mean()
DisPenalizedCE_return(dist, loss, weighted_loss) ==
    [exc |-> "",
     ret |-> Some(CrossEntropyMean(loss, [k \in 1..Len(loss) |-> 1])),
     dist |-> dist, loss |-> loss, weighted_loss |-> weighted_loss]

\* weighted_loss = loss * dist
DisPenalizedCE_weighted(dist, loss) ==
    DisPenalizedCE_return(dist, loss,
        Tuple([k \in 1..Len(loss) |-> [p |-> loss[k], w |-> dist.data[k]]]))

\* inp_logs = log_sm(inp); loss = -inp_logs[range(target.shape[0]), target]:
\* IndexError for a label that is not a class
DisPenalizedCE_loss(dist, f) ==
    IF \E n \in 1..Len(f.target.data) : RTrunc(f.target.data[n]) >= f.inp.shape[2]
    THEN [exc |-> "IndexError", ret |-> None, dist |-> dist]
    ELSE DisPenalizedCE_weighted(dist, TargetProbabilities(f))

DisPenalizedCE_forward(inp, target, far) ==
    DisPenalizedCE_loss(DisPenalizedCE_dist(target, far),
        FlattenViews(MoveClassAxisLast(inp, 1, 2), TLong(target), inp.shape[2]))

(***************************************************************************)
(* The specification of DisPenalizedCE: two rows of 4 to MaxRow voxels,    *)
(* two classes; ground truths whose values 0, 0.7 and 1 give the           *)
(* same labels (0.7 is label 0) with different masks (0.7 is foreground),  *)
(* and a ground truth with a label that is no class.                       *)
(***************************************************************************)
MaxRow == 5

\* a row of X voxels: a up to voxel s, b after it
SplitRow(X, s, a, b) == [j \in 1..X |-> IF j <= s THEN a ELSE b]

TargetValuePairs ==
    {<<Rat(7, 10), Zero>>, <<Zero, Rat(7, 10)>>, <<One, Zero>>, <<Zero, One>>,
     <<One, Rat(7, 10)>>, <<Zero, Zero>>, <<Rat(2, 1), One>>}

TargetRows(X) ==
    {SplitRow(X, s, ab[1], ab[2]) : s \in 1..(X - 1), ab \in TargetValuePairs}

SecondRows(X) ==
    {SplitRow(X, 2, Rat(7, 10), Zero), SplitRow(X, 2, Zero, One), SplitRow(X, 2, Zero, Zero)}

\* the ground truths of a layout: (2, 1, X) or (2, X)
DisTargets(shape) ==
    {Tensor(shape, r1 \o r2) :
        r1 \in TargetRows(shape[Len(shape)]), r2 \in SecondRows(shape[Len(shape)])}

\* what the distance transform reports for a mask without background
FarChoices(X) == {[j \in 1..X |-> j], [j \in 1..X |-> 0]}

InitDis ==
    /\ self = [cls |-> "DisPenalizedCE"]
    /\ args = None
    /\ pc = "ready"
    /\ locals = None
    /\ ret = None
    /\ exc = ""

DisPenalizedCE_call ==
    /\ pc = "ready"
    /\ self.cls = "DisPenalizedCE"
    /\ \E X \in 4..MaxRow : \E p \in 1..Len(LogitPatterns) :
       \E shape \in {<<2, 1, X>>, <<2, X>>} : \E target \in DisTargets(shape) :
       \E far \in FarChoices(X) :
          args' = [inp |-> LogitTensor(<<2, 2, X>>, p), target |-> target, far |-> far]
    /\ locals' = DisPenalizedCE_forward(args'.inp, args'.target, args'.far)
    /\ ret' = locals'.ret
    /\ exc' = locals'.exc
    /\ pc' = "done"
    /\ UNCHANGED self

NextDis == DisPenalizedCE_call

SpecDis == InitDis /\ [][NextDis]_vars

(***************************************************************************)
(* Helpers of the properties: sums written over sets of index tuples,      *)
(* independently of the axis-by-axis reductions of the code.               *)
(***************************************************************************)
AllIndices(shape) == {Coord(p - 1, shape) : p \in 1..Numel(shape)}

At(t, i) == t.data[Flat(i, t.shape) + 1]

RECURSIVE SumOverSet(_, _)
SumOverSet(S, f) ==
    IF S = {} THEN Zero
    ELSE LET e == CHOOSE e \in S : TRUE IN RAdd(f[e], SumOverSet(S \ {e}, f))

AllEntries(t, v) == \A k \in 1..Len(t.data) : t.data[k] = v

\* the axes of a tensor of the given rank that are not in the set reduced
KeptAxes(rank, reduced) == {ax \in 0..(rank - 1) : ax \notin reduced}

\* the index tuples of shape that agree with i on the kept axes, where i
\* indexes the tensor left after the reduction
Cell(shape, reduced, i) ==
    LET kept == KeptAxes(Len(shape), reduced)
    IN  {j \in AllIndices(shape) :
            \A ax \in kept : j[ax + 1] = i[Cardinality({k \in kept : k < ax}) + 1]}

RECURSIVE KeptSizes(_, _, _)
KeptSizes(shape, kept, ax) ==
    IF ax = Len(shape) THEN <<>>
    ELSE (IF ax \in kept THEN <<shape[ax + 1]>> ELSE <<>>) \o KeptSizes(shape, kept, ax + 1)

ReducedShape(shape, reduced) == KeptSizes(shape, KeptAxes(Len(shape), reduced), 0)

\* the class axis sums to 1 at every (batch, spatial) location
ClassSumsAreOne(t) ==
    \A j \in AllIndices(RemoveAt(t.shape, 1)) :
        SumOverSet({InsertAt(j, 1, c) : c \in 0..(t.shape[2] - 1)},
                   [i \in AllIndices(t.shape) |-> At(t, i)]) = One

(***************************************************************************)
(* C1.  As stated: for every accepted ground truth (a label map of shape   *)
(* (B, *S) or (B, 1, *S), or a tensor of shape (B, C, *S)) the reconciled  *)
(* y_onehot has the prediction's shape and sums to 1 across the class axis *)
(* at every location.  A (B, C, *S) tensor is handed through unchanged, so *)
(* its class sums are whatever the caller passed, and so is a (B, 1, *S)   *)
(* label map when C = 1.                                                   *)
(***************************************************************************)
C1_AsStated ==
    pc = "done" =>
        /\ locals.y_onehot.shape = args.x.shape
        /\ ClassSumsAreOne(locals.y_onehot)

(***************************************************************************)
(* C1, amended.  y_onehot always has the prediction's shape.  Its class    *)
(* sums are 1 at every location when the ground truth is a label map and   *)
(* C >= 2, or is itself one-hot; a tensor that already has the             *)
(* prediction's shape (a one-hot or any other (B, C, *S) tensor, or a      *)
(* (B, 1, *S) label map when C = 1) is used unchanged.                     *)
(***************************************************************************)
C1_Reconciled ==
    pc = "done" =>
        /\ locals.y_onehot.shape = args.x.shape
        /\ (args.y_kind = "one_hot" \/ (args.y_kind = "label_map" /\ args.x.shape[2] >= 2))
              => /\ ClassSumsAreOne(locals.y_onehot)
                 /\ locals.y_onehot = OneHotOf(args.x.shape, args.labels)
        /\ args.y.shape = args.x.shape => locals.y_onehot = args.y

C1_Witness ==
    /\ pc = "done"
    /\ args.y_kind = "label_map"
    /\ Len(args.y.shape) = Len(args.x.shape) - 1
    /\ args.x.shape[1] >= 2
    /\ args.x.shape[2] >= 3
    /\ \E k \in 1..Len(args.y.data) : args.y.data[k] = Rat(2, 1)

(***************************************************************************)
(* C2.  get_tp_fp_fn returns, for every index left after the reduction     *)
(* (a class, and a batch item when axis 0 is not reduced),                 *)
(*   tp = sum p*g,  fp = sum p*(1-g),  fn = sum (1-p)*g                    *)
(* over the reduced locations; with square=True every product is squared   *)
(* before it is added; with a mask, only the locations where the mask is   *)
(* 1 are added.                                                            *)
(***************************************************************************)
C2_Expected(i, term) ==
    LET shp == args.x.shape
        reduced == IF args.axes = None THEN 2..(Len(shp) - 1)
                   ELSE {Val(args.axes)[k] : k \in 1..Len(Val(args.axes))}
        valid == {j \in Cell(shp, reduced, i) :
                     args.loss_mask = None
                     \/ At(Val(args.loss_mask), SetAt(j, 1, 0)) # Zero}
    IN  SumOverSet(valid, [j \in AllIndices(shp) |->
            IF args.square THEN RMul(term[j], term[j]) ELSE term[j]])

C2_Confusion ==
    pc = "done" =>
        LET shp == args.x.shape
            reduced == IF args.axes = None THEN 2..(Len(shp) - 1)
                       ELSE {Val(args.axes)[k] : k \in 1..Len(Val(args.axes))}
            out == ReducedShape(shp, reduced)
            p == [j \in AllIndices(shp) |-> At(args.x, j)]
            g == [j \in AllIndices(shp) |-> At(locals.y_onehot, j)]
        IN  /\ locals.tp.shape = out
            /\ locals.fp.shape = out
            /\ locals.fn.shape = out
            /\ \A i \in AllIndices(out) :
                  /\ At(locals.tp, i)
                       = C2_Expected(i, [j \in AllIndices(shp) |-> RMul(p[j], g[j])])
                  /\ At(locals.fp, i)
                       = C2_Expected(i, [j \in AllIndices(shp) |->
                                            RMul(p[j], RSub(One, g[j]))])
                  /\ At(locals.fn, i)
                       = C2_Expected(i, [j \in AllIndices(shp) |->
                                            RMul(RSub(One, p[j]), g[j])])

\* squared, masked, reduced over the batch too, with a class whose true positives
\* come from more than one location
C2_Witness ==
    /\ pc = "done"
    /\ args.square
    /\ args.loss_mask # None
    /\ args.axes # None
    /\ \E k \in 1..Len(locals.tp.data) : RLess(One, locals.tp.data[k])
    /\ \E k \in 1..Len(locals.fp.data) : RLess(Zero, locals.fp.data[k])


(***************************************************************************)
(* C3.  With do_bg=False the mean returned by SoftDiceLoss, IoULoss,       *)
(* TverskyLoss, AsymLoss and SSLoss is taken over exactly the scores of    *)
(* the classes 1..C-1, in their order, in both layouts ((C,) with          *)
(* batch_dice, (B, C) without): it is the mean of the do_bg=True score     *)
(* tensor sliced by hand.                                                  *)
(***************************************************************************)
\* the value a loss returns for the mean m of its scores
FromMean(cls, m) ==
    IF cls = "SoftDiceLoss" THEN RSub(One, m)
    ELSE IF cls = "SSLoss" THEN m
    ELSE RNeg(m)

C3_ForegroundMean ==
    (pc = "done" /\ ~self.do_bg) =>
        LET B == args.x.shape[1]
            C == args.x.shape[2]
            full == RegionForward([self EXCEPT !.do_bg = TRUE],
                                  args.x, args.y, args.loss_mask).score
            fg == {i \in AllIndices(full.shape) : i[Len(i)] >= 1}
            total == SumOverSet(fg, [i \in AllIndices(full.shape) |-> At(full, i)])
        IN  /\ full.shape = IF self.batch_dice THEN <<C>> ELSE <<B, C>>
            /\ locals.kept.shape = IF self.batch_dice THEN <<C - 1>> ELSE <<B, C - 1>>
            /\ \A i \in AllIndices(locals.kept.shape) :
                  At(locals.kept, i) = At(full, SetAt(i, Len(i) - 1, i[Len(i)] + 1))
            /\ ret = FromMean(self.cls, RDiv(total, Rat(Cardinality(fg), 1)))

\* per-sample layout, two batch items, three classes, scores that differ
C3_Witness ==
    /\ pc = "done"
    /\ ~self.do_bg
    /\ ~self.batch_dice
    /\ locals.kept.shape = <<2, 2>>
    /\ locals.score.data[1] # locals.score.data[2]
    /\ locals.kept.data[1] # locals.kept.data[3]
    /\ IsFinite(ret)

(***************************************************************************)
(* C4.  As stated: whenever the prediction is exactly the one-hot encoding *)
(* of the ground truth (no nonlinearity), for every smooth > 0, batch_dice,*)
(* do_bg and square, fp and fn are 0 for every class, every score is 1,    *)
(* and SoftDiceLoss returns 0, IoULoss -1 and TverskyLoss -1.              *)
(* With a single class (C = 1) do_bg=False leaves no score to average      *)
(* (the mean is nan), and a label map of shape (B, 1, *S) is taken for a   *)
(* one-hot tensor, so that fp > 0.                                         *)
(***************************************************************************)
C4_Case ==
    /\ pc = "done"
    /\ self.cls \in {"SoftDiceLoss", "IoULoss", "TverskyLoss"}
    /\ self.apply_nonlin = "None"
    /\ RLess(Zero, self.smooth)
    /\ args.x_kind = "exact"
    /\ args.y_kind \in {"label_map", "one_hot"}

C4_Ideal ==
    /\ AllEntries(locals.fp, Zero)
    /\ AllEntries(locals.fn, Zero)
    /\ AllEntries(locals.score, One)
    /\ ret = IF self.cls = "SoftDiceLoss" THEN Zero ELSE RNeg(One)

C4_AsStated == C4_Case => C4_Ideal

(***************************************************************************)
(* C4, amended.  The same, for C >= 2, and for C = 1 when the ground truth *)
(* is passed as a one-hot tensor and do_bg=True.                           *)
(***************************************************************************)
C4_PerfectPrediction ==
    (C4_Case /\ (args.x.shape[2] >= 2 \/ (args.y_kind = "one_hot" /\ self.do_bg)))
        => C4_Ideal

C4_Witness ==
    /\ C4_Case
    /\ self.cls = "SoftDiceLoss"
    /\ args.x.shape = <<2, 2, 2>>
    /\ args.y_kind = "label_map"
    /\ ~self.do_bg
    /\ self.square
    /\ self.smooth = Half
    /\ ret = Zero

(***************************************************************************)
(* C5.  ExpLog_loss passes the positive dice score, 1 - dice_loss with     *)
(* dice_loss the value SoftDiceLoss returns, to clamp(., min=1e-6), so     *)
(* that the region term varies with the prediction.  The code passes       *)
(* -dice_loss = dice score - 1, which is never positive: the clamp always  *)
(* returns its floor.                                                      *)
(***************************************************************************)
C5_PositiveDiceScore ==
    (pc = "done" /\ self.cls = "ExpLog_loss") =>
        /\ locals.dc_loss
             = RSub(One, SoftDiceLoss_forward(self.dc, args.net_output, args.target,
                                              None).ret)
        /\ locals.clamped = locals.dc_loss

(***************************************************************************)
(* C6.  kld_loss raises NotImplementedError and returns nothing whenever   *)
(* one of flag_mu1 (outside {0,1,2}), flag_std1 (outside {0,1,2}),         *)
(* flag_mu2 (outside {0,1}) or flag_std2 (outside {0,1}) is outside its    *)
(* set, whatever the other flags are.  The code tests the flags one after  *)
(* the other, between the computations: what an earlier flag selects can   *)
(* raise first (math.log of 0 a ValueError, min of tensors of several      *)
(* elements a RuntimeError).                                               *)
(***************************************************************************)
C6_UnsupportedFlag ==
    (/\ pc = "done"
     /\ self.cls = "kld_loss"
     /\ \/ args.flag_mu1 \notin {0, 1, 2}
        \/ args.flag_std1 \notin {0, 1, 2}
        \/ args.flag_mu2 \notin {0, 1}
        \/ args.flag_std2 \notin {0, 1})
    => (exc = "NotImplementedError" /\ ret = None)

(***************************************************************************)
(* C7.  DC_and_CE_loss and DC_and_topk_loss return dice_loss + ce_loss     *)
(* (resp. dice_loss + topk_loss, whatever torch.topk returns) when         *)
(* aggregate == "sum"; for every other aggregate the call raises           *)
(* NotImplementedError and returns nothing.                                *)
(***************************************************************************)
C7_Aggregate ==
    (pc = "done" /\ self.cls \in {"DC_and_CE_loss", "DC_and_topk_loss"}) =>
        LET dice_loss == SoftDiceLoss_forward(self.dc, args.net_output, args.target,
                                              None).ret
        IN  IF self.aggregate = "sum"
            THEN /\ exc = ""
                 /\ IF self.cls = "DC_and_CE_loss"
                    THEN ret = Some(RealAddQ(CrossentropyND_forward(
                                 self.ce, args.net_output, args.target), dice_loss))
                    ELSE \A order \in TopKLoss_orders(self.ce, args.net_output,
                                                     args.target) :
                            ret = Some(RealAddQ(TopKLoss_forward(
                                      self.ce, args.net_output, args.target, order).ret,
                                  dice_loss))
            ELSE /\ exc = "NotImplementedError"
                 /\ ret = None

\* an unknown mode, on a call whose two terms were computed
C7_Witness ==
    /\ pc = "done"
    /\ self.cls = "DC_and_topk_loss"
    /\ self.aggregate = "mean"
    /\ exc = "NotImplementedError"
    /\ ret = None
    /\ Len(locals.topk) = 2
    /\ IsFinite(locals.dc_loss)

(***************************************************************************)
(* C8.  TopKLoss returns the mean of the floor(N*k/100) largest of the N   *)
(* per-voxel cross-entropy losses -ln(p_v), p_v the softmax probability of *)
(* the target class of voxel v; with k = 100 that is the mean over all N   *)
(* voxels.  (For a count of 0 the mean of no loss is nan.)                 *)
(***************************************************************************)
\* the softmax probability of the target class at voxel j of (B, *S)
C8_Probability(j) ==
    LET x == [i \in AllIndices(args.inp.shape) |-> At(args.inp, i)]
        t == RTrunc(At(args.target, InsertAt(j, 1, 0)))
    IN  RDiv(x[InsertAt(j, 1, t)],
             SumOverSet({InsertAt(j, 1, c) : c \in 0..(args.inp.shape[2] - 1)}, x))

RECURSIVE C8_Product(_, _)
C8_Product(S, p) ==
    IF S = {} THEN One
    ELSE LET j == CHOOSE j \in S : TRUE IN RMul(p[j], C8_Product(S \ {j}, p))

C8_TopK ==
    (pc = "done" /\ self.cls = "TopKLoss") =>
        LET voxels == AllIndices(RemoveAt(args.inp.shape, 1))
            N == Cardinality(voxels)
            K == CHOOSE m \in 0..N : 100 * m <= N * self.k /\ N * self.k < 100 * (m + 1)
            p == [j \in voxels |-> C8_Probability(j)]
            largest == {T \in SUBSET voxels :
                           /\ Cardinality(T) = K
                           /\ \A i \in T : \A j \in voxels \ T : ~RLess(p[j], p[i])}
        IN  /\ Len(locals.topk) = K
            /\ \A T \in largest :
                  Val(ret) = IF K = 0 THEN Real(NaN, Zero, One)
                             ELSE Real(Zero, RDiv(RNeg(One), Rat(K, 1)), C8_Product(T, p))
            /\ self.k = 100 =>
                  Val(ret) = Real(Zero, RDiv(RNeg(One), Rat(N, 1)), C8_Product(voxels, p))

\* half of four voxels kept, and a voxel of strictly smaller loss left out
C8_Witness ==
    /\ pc = "done"
    /\ self.cls = "TopKLoss"
    /\ self.k = 50
    /\ Len(locals.res.data) = 4
    /\ Len(locals.topk) = 2
    /\ \E j \in 1..4 : \A a \in 1..2 : RLess(locals.topk[a], locals.res.data[j])

(***************************************************************************)
(* C9.  As stated: one sample, one voxel, 2 classes, prediction            *)
(* all-background (1, 0), ground truth all-foreground (class 1), smooth=1, *)
(* do_bg=True, no nonlinearity: every class score of TverskyLoss is 1/2    *)
(* and the loss is -1/2.                                                   *)
(***************************************************************************)
C9_Case ==
    /\ pc = "done"
    /\ self.cls = "TverskyLoss"
    /\ self.apply_nonlin = "None"
    /\ self.smooth = One
    /\ self.do_bg
    /\ args.x = Tensor(<<1, 2, 1>>, <<One, Zero>>)
    /\ locals.y_onehot = Tensor(<<1, 2, 1>>, <<Zero, One>>)
    /\ args.loss_mask = None

C9_AsStated ==
    C9_Case => (AllEntries(locals.score, Half) /\ ret = RNeg(Half))

(***************************************************************************)
(* C9, amended.  In that scenario class 0 has tp = 0, fp = 1, fn = 0 and   *)
(* class 1 has tp = 0, fp = 0, fn = 1, so the scores are                   *)
(* 1/(1 + 0.3) = 10/13 and 1/(1 + 0.7) = 10/17 and the loss is their       *)
(* negated mean, -150/221.                                                 *)
(***************************************************************************)
C9_Tversky ==
    C9_Case =>
        /\ locals.tp.data = <<Zero, Zero>>
        /\ locals.fp.data = <<One, Zero>>
        /\ locals.fn.data = <<Zero, One>>
        /\ locals.score.data = <<Rat(10, 13), Rat(10, 17)>>
        /\ ret = Rat(-150, 221)

C9_Witness == C9_Case /\ ~self.batch_dice /\ args.y_kind = "label_map"

(***************************************************************************)
(* C10.  Label reconciliation is idempotent: a ground truth that already   *)
(* has the prediction's shape is used as y_onehot unchanged (in            *)
(* get_tp_fp_fn and in its copies in SSLoss, GDiceLoss and GDiceLossV2),   *)
(* so reconciling a reconciled tensor returns it.                          *)
(***************************************************************************)
C10_Idempotent ==
    pc = "done" =>
        /\ args.y.shape = args.x.shape =>
              /\ locals.y_onehot = args.y
              /\ GDiceLoss_onehot(args.x, args.y) = args.y
              /\ GDiceLossV2_onehot(args.x, args.y) = args.y
        /\ get_tp_fp_fn_onehot(args.x, locals.y_onehot) = locals.y_onehot
        /\ SSLoss_onehot(args.x, locals.y_onehot) = locals.y_onehot
        /\ GDiceLoss_onehot(args.x, GDiceLoss_onehot(args.x, args.y))
             = GDiceLoss_onehot(args.x, args.y)
        /\ GDiceLossV2_onehot(args.x, GDiceLossV2_onehot(args.x, args.y))
             = GDiceLossV2_onehot(args.x, args.y)

\* a one-hot ground truth of three classes, and a soft one, handed through
C10_Witness ==
    /\ pc = "done"
    /\ args.y.shape = args.x.shape
    /\ args.x.shape[2] >= 2
    /\ locals.y_onehot = args.y
    /\ \E k \in 1..Len(args.y.data) : args.y.data[k] = Half

(***************************************************************************)
(* C11.  A posterior parameter of kld_loss that reuses the prior takes the *)
(* prior's resolved value: with flag_mu1 = 2 the posterior mean of the     *)
(* formula is the prior mean of the formula, with flag_std1 = 2 the        *)
(* posterior variance is var2, for every flag_mu2 and flag_std2.  The code *)
(* resolves the posterior first, from the arguments mu2 and std2, and the  *)
(* prior afterwards: with flag_mu2 = 1 or flag_std2 = 1 the two differ.    *)
(***************************************************************************)
C11_ReusesPrior ==
    (pc = "done" /\ self.cls = "kld_loss" /\ exc = "") =>
        /\ args.flag_mu1 = 2 => locals.mu1.data = locals.mu2.data
        /\ args.flag_std1 = 2 => locals.var1.data = locals.var2.data

(***************************************************************************)
(* C12.  Every logarithm kld_loss takes has a positive argument, a value   *)
(* <= 0 being clamped to a small positive floor first: no call ends in the *)
(* ValueError of math.log, whatever mean the flags produce.  The code      *)
(* clamps nothing: a derived standard deviation of 0 (mean 0 or 1) fails   *)
(* in math.log(var1) and in math.log(sigma2), a negative one (mean outside *)
(* [0, 1]) in math.log(sigma2).                                            *)
(***************************************************************************)
C12_LogarithmsClamped ==
    (pc = "done" /\ self.cls = "kld_loss") => exc # "ValueError"

(***************************************************************************)
(* C13.  The threshold kld_loss returns is the mean of mu1 + std1 * eps,   *)
(* mu1 and std1 being the posterior mean and standard deviation of the KL  *)
(* term, for every flag_mu1 and flag_std1.  The code always takes          *)
(* std = exp(0.5 * logvar1), also when flag_std1 is 1 or 2 and the KL term *)
(* uses a derived standard deviation.  (locals.log_sigma1 holds            *)
(* exp(log_sigma1), the standard deviation of the KL term.)                *)
(***************************************************************************)
C13_ThresholdSample ==
    (pc = "done" /\ self.cls = "kld_loss" /\ exc = "") =>
        Val(ret)[2]
          = TMean(PyOp("add", PyOp("mul", locals.log_sigma1, args.eps), locals.mu1))

(***************************************************************************)
(* C14.  DisPenalizedCE.forward computes the distance-weighted loss map    *)
(* and returns the mean of the unweighted per-voxel negative               *)
(* log-likelihood: a call with the same prediction and the same labels     *)
(* returns (or raises) the same, whatever distance map its ground truth    *)
(* gives.                                                                  *)
(***************************************************************************)
C14_SameLabels(t1, t2) == TLong(t1) = TLong(t2)

C14_DistanceMapIgnored ==
    (pc = "done" /\ self.cls = "DisPenalizedCE") =>
        /\ \A t2 \in DisTargets(args.target.shape) :
           \A far2 \in FarChoices(args.inp.shape[3]) :
              C14_SameLabels(t2, args.target) =>
                 LET other == DisPenalizedCE_forward(args.inp, t2, far2)
                 IN  other.ret = ret /\ other.exc = exc
        /\ exc = "" =>
              /\ Val(ret) = CrossEntropyMean(locals.loss, [k \in 1..Len(locals.loss) |-> 1])
              /\ \A k \in 1..Len(locals.loss) :
                    locals.weighted_loss[k] = [p |-> locals.loss[k], w |-> locals.dist.data[k]]

\* a call whose distance map has the multipliers 1, 3/2 and 2, and a ground
\* truth of the same labels whose distance map is another one
C14_Witness ==
    /\ pc = "done"
    /\ self.cls = "DisPenalizedCE"
    /\ exc = ""
    /\ \E k \in 1..Len(locals.dist.data) : locals.dist.data[k] = Rat(3, 2)
    /\ \E k \in 1..Len(locals.dist.data) : locals.dist.data[k] = Rat(2, 1)
    /\ \E t2 \in DisTargets(args.target.shape) :
          /\ C14_SameLabels(t2, args.target)
          /\ DisPenalizedCE_dist(t2, args.far) # locals.dist
          /\ \A k \in 1..Len(locals.dist.data) :
                IsFinite(DisPenalizedCE_dist(t2, args.far).data[k])

(***************************************************************************)
(* C15.  kld_loss leaves the caller's tensors as they were, whether it     *)
(* returns or raises, and no forward changes the hyperparameters of its    *)
(* loss object.  raw_output and logvar1 are only read; with flag_mu1 = 0   *)
(* F.relu(mu1, inplace=True) overwrites the negative entries of the        *)
(* caller's mu1 with 0.                                                    *)
(***************************************************************************)
C15_CallerTensorsKept ==
    (pc = "done" /\ self.cls = "kld_loss") => locals.mu1_after = args.mu1

====
